---- MODULE Spec2Model ----
(***************************************************************************)
(* Model of the character-history parser/rewriter of HIP-tools             *)
(* (src/culture-melt/history.py) and of the rule application of            *)
(* src/culture-melt/culture-melt.py.                                       *)
(*                                                                         *)
(* Text is modelled at the level of lexemes: a line is a sequence of       *)
(* lexemes, each lexeme a TLA+ string that stands for either one special   *)
(* character (blank, tab, quote, #, =, {, }, ., CR, LF) or one maximal run *)
(* of word characters (letters or digits).  The regular expressions of the *)
(* source are operators on such sequences.  Positions are 1-based.         *)
(***************************************************************************)
EXTENDS Integers, Sequences, FiniteSets, TLC

\* ------------------------------------------------------------------ bounds
MaxBody == 5         \* optional body lines of a generated record
MaxEntryLines == 3   \* body lines of a generated nested entry
MaxFiles == 2        \* source files of a generated directory

\* ------------------------------------------------------------------ lexemes
EOLS == {"\r", "\n"}
\* the lexemes that the class \s matches
WS == {" ", "\t"} \cup EOLS
QUOTE == "\""

\* Decimal lexemes and the value int() gives them.
NumVal == [a \in {"0", "1", "2", "5", "7", "12", "07", "867", "900", "1120"} |->
             CASE a = "0" -> 0 [] a = "1" -> 1 [] a = "2" -> 2 [] a = "5" -> 5
               [] a = "7" -> 7 [] a = "12" -> 12 [] a = "07" -> 7
               [] a = "867" -> 867 [] a = "900" -> 900 [] a = "1120" -> 1120]

\* Number of digits of a decimal lexeme.
NumDigits == [a \in DOMAIN NumVal |->
                CASE a \in {"0", "1", "2", "5", "7"} -> 1
                  [] a \in {"12", "07"} -> 2
                  [] a \in {"867", "900"} -> 3
                  [] a = "1120" -> 4]

IsNum(a) == a \in DOMAIN NumVal

\* '{}'.format(n) for an integer n: the decimal lexeme without leading zeros.
IntStr(n) == CHOOSE a \in DOMAIN NumVal : NumVal[a] = n /\ \A b \in DOMAIN NumVal :
                                            NumVal[b] = n => NumDigits[a] <= NumDigits[b]

SetMin(S) == CHOOSE x \in S : \A y \in S : x <= y
SetMax(S) == CHOOSE x \in S : \A y \in S : x >= y

\* s[i..] (Python s[i-1:])
From(s, i) == SubSeq(s, i, Len(s))

RECURSIVE Concat(_)
Concat(ss) == IF ss = <<>> THEN <<>> ELSE Head(ss) \o Concat(Tail(ss))

\* Position of the first lexeme at or after i that is not whitespace (regex \s*).
SkipWS(s, i) ==
    LET C == {j \in i..Len(s) : s[j] \notin WS}
    IN  IF C = {} THEN Len(s) + 1 ELSE SetMin(C)

\* \s*(#.*)?$ matches s from position p
RestOK(s, p) == LET k == SkipWS(s, p) IN k > Len(s) \/ s[k] = "#"
\* the comment group of \s*(#.*)?$ from position p; <<>> stands for None
RestCmt(s, p) == LET k == SkipWS(s, p) IN IF k > Len(s) THEN <<>> ELSE From(s, k)

NoMatch == [ok |-> FALSE]

\* ------------------------------------------------------------------ patterns
\* p_blank = ^\s+$
p_blank(s) == Len(s) > 0 /\ \A j \in 1..Len(s) : s[j] \in WS

\* p_bare_comment_or_blank = ^(\s*#.*)|(\s*)$
p_bare_comment_or_blank(s) == RestOK(s, 1)

\* Position after ^\s*key\s*=\s* in s, or 0 when that prefix does not match.
KeyEq(s, key) ==
    LET i == SkipWS(s, 1)
        j == SkipWS(s, i + 1)
    IN  IF i <= Len(s) /\ s[i] = key /\ j <= Len(s) /\ s[j] = "="
        THEN SkipWS(s, j + 1) ELSE 0

\* (?:"([^"]+)"|([^"\s]+))\s*(#.*)?$ from position k of s, with the value that
\* dequoteCommentableVal takes from it: group 2 if it took part, else group 1.
OptQuoted(s, k) ==
    IF k = 0 \/ k > Len(s) THEN NoMatch
    ELSE IF s[k] = QUOTE
    THEN LET Q == {j \in (k + 1)..Len(s) : s[j] = QUOTE}
         IN  IF Q # {} /\ SetMin(Q) >= k + 2 /\ RestOK(s, SetMin(Q) + 1)
             THEN [ok |-> TRUE, val |-> SubSeq(s, k + 1, SetMin(Q) - 1),
                   cmt |-> RestCmt(s, SetMin(Q) + 1)]
             ELSE NoMatch
    ELSE IF s[k] \in WS THEN NoMatch
    ELSE LET Stop == {j \in k..Len(s) : s[j] \in WS \cup {QUOTE}}
             last == IF Stop = {} THEN Len(s) ELSE SetMin(Stop) - 1
             \* greedy [^"\s]+, backtracking until the rest of the pattern matches
             E == {e \in k..last : RestOK(s, e + 1)}
         IN  IF E # {}
             THEN [ok |-> TRUE, val |-> SubSeq(s, k, SetMax(E)),
                   cmt |-> RestCmt(s, SetMax(E) + 1)]
             ELSE NoMatch

\* p_char_name, p_char_religion, p_char_culture
p_char_name(s) == OptQuoted(s, KeyEq(s, "name"))
p_char_religion(s) == OptQuoted(s, KeyEq(s, "religion"))
p_char_culture(s) == OptQuoted(s, KeyEq(s, "culture"))

\* p_char_dynasty = ^\s*dynasty\s*=\s*(?:"(\d+)"|(\d+))\s*(#.*)?$
p_char_dynasty(s) ==
    LET k == KeyEq(s, "dynasty")
    IN  IF k = 0 \/ k > Len(s) THEN NoMatch
        ELSE IF s[k] = QUOTE
        THEN IF k + 2 <= Len(s) /\ IsNum(s[k + 1]) /\ s[k + 2] = QUOTE /\ RestOK(s, k + 3)
             THEN [ok |-> TRUE, val |-> <<s[k + 1]>>, cmt |-> RestCmt(s, k + 3)]
             ELSE NoMatch
        ELSE IF IsNum(s[k]) /\ RestOK(s, k + 1)
        THEN [ok |-> TRUE, val |-> <<s[k]>>, cmt |-> RestCmt(s, k + 1)]
        ELSE NoMatch

\* p_char_female = ^\s*female\s*=\s*(yes|no)\s*$
p_char_female(s) ==
    LET k == KeyEq(s, "female")
    IN  IF k # 0 /\ k <= Len(s) /\ s[k] \in {"yes", "no"} /\ SkipWS(s, k + 1) > Len(s)
        THEN [ok |-> TRUE, val |-> s[k]] ELSE NoMatch

\* p_char_start = ^\s*(\d+)\s*=\s*\{\s*(#.*)?$
p_char_start(s) ==
    LET i == SkipWS(s, 1)
        j == SkipWS(s, i + 1)
        k == SkipWS(s, j + 1)
    IN  IF i <= Len(s) /\ IsNum(s[i]) /\ j <= Len(s) /\ s[j] = "="
           /\ k <= Len(s) /\ s[k] = "{" /\ RestOK(s, k + 1)
        THEN [ok |-> TRUE, id |-> s[i], cmt |-> RestCmt(s, k + 1)] ELSE NoMatch

\* p_char_end = ^\}\s*$
p_char_end(s) == Len(s) >= 1 /\ s[1] = "}" /\ SkipWS(s, 2) > Len(s)

\* ^\s*(\d{1,4})\.(\d{1,2})\.(\d{1,2})\s*=\s*  : the three groups and the
\* position after the match
DateEq(s) ==
    LET i == SkipWS(s, 1)
        j == SkipWS(s, i + 5)
    IN  IF i + 4 <= Len(s) /\ IsNum(s[i]) /\ s[i + 1] = "." /\ IsNum(s[i + 2])
           /\ s[i + 3] = "." /\ IsNum(s[i + 4])
           /\ NumDigits[s[i]] <= 4 /\ NumDigits[s[i + 2]] <= 2 /\ NumDigits[s[i + 4]] <= 2
           /\ j <= Len(s) /\ s[j] = "="
        THEN [ok |-> TRUE, y |-> s[i], m |-> s[i + 2], d |-> s[i + 4],
              end |-> SkipWS(s, j + 1)]
        ELSE NoMatch

\* p_char_hist_entry_start = ^\s*(\d{1,4})\.(\d{1,2})\.(\d{1,2})\s*=\s*\{
p_char_hist_entry_start(s) ==
    LET m == DateEq(s)
    IN  IF m.ok /\ m.end <= Len(s) /\ s[m.end] = "{" THEN m ELSE NoMatch

\* p_char_hist_entry_multi_start = ^\s*(\d{1,4})\.(\d{1,2})\.(\d{1,2})\s*=\s*$
p_char_hist_entry_multi_start(s) ==
    LET m == DateEq(s)
    IN  IF m.ok /\ m.end > Len(s) THEN m ELSE NoMatch

p_char_hist_entry_multi_finish_lax(s) ==
    LET i == SkipWS(s, 1)
    IN  i <= Len(s) /\ (s[i] = "{" \/ s[Len(s)] = "{")

\* p_char_hist_entry_multi_finish = ^\s*\{\s*$
p_char_hist_entry_multi_finish(s) ==
    LET i == SkipWS(s, 1)
    IN  i <= Len(s) /\ s[i] = "{" /\ SkipWS(s, i + 1) > Len(s)

\* p_char_hist_entry_birth = ^\s*birth\s*=\s*(?:"(?:[^"]+)"|([^"\s]+))
\* g1 is group 1, <<>> for None
p_char_hist_entry_birth(s) ==
    LET k == KeyEq(s, "birth")
    IN  IF k = 0 \/ k > Len(s) THEN NoMatch
        ELSE IF s[k] = QUOTE
        THEN LET Q == {j \in (k + 1)..Len(s) : s[j] = QUOTE}
             IN  IF Q # {} /\ SetMin(Q) >= k + 2
                 THEN [ok |-> TRUE, g1 |-> <<>>] ELSE NoMatch
        ELSE IF s[k] \in WS THEN NoMatch
        ELSE LET Stop == {j \in k..Len(s) : s[j] \in WS \cup {QUOTE}}
                 last == IF Stop = {} THEN Len(s) ELSE SetMin(Stop) - 1
             IN  [ok |-> TRUE, g1 |-> SubSeq(s, k, last)]

\* p_open_brace = ^([^}]*)\{  : greedy, so the match ends at the last { that no }
\* precedes
p_open_brace(s) ==
    LET C == {j \in 1..Len(s) : s[j] = "}"}
        lim == IF C = {} THEN Len(s) ELSE SetMin(C) - 1
        O == {j \in 1..lim : s[j] = "{"}
    IN  IF O # {} THEN [ok |-> TRUE, end |-> SetMax(O)] ELSE NoMatch

\* a variant of p_close_brace that matches without consuming anything
p_close_brace_empty(s) ==
    IF \E j \in 1..Len(s) : s[j] = "}" THEN [ok |-> TRUE, end |-> 0] ELSE NoMatch

\* p_close_brace = ^([^{]*)\}  : greedy, so the match ends at the last } that no {
\* precedes
p_close_brace(s) ==
    LET O == {j \in 1..Len(s) : s[j] = "{"}
        lim == IF O = {} THEN Len(s) ELSE SetMin(O) - 1
        C == {j \in 1..lim : s[j] = "}"}
    IN  IF C # {} THEN [ok |-> TRUE, end |-> SetMax(C)] ELSE NoMatch

\* p_one_line_one_block = ^\s*[^#]*\{.*\}
p_one_line_one_block(s) ==
    \E i \in 1..Len(s) : /\ s[i] = "{"
                         /\ \A h \in 1..(i - 1) : s[h] # "#"
                         /\ \E j \in (i + 1)..Len(s) : s[j] = "}"

\* ------------------------------------------------------------------ values
\* Python values whose type matters in a comparison
PyInt(n) == [int |-> n]
PyStr(s) == [str |-> s]

\* DateVal.__init__ : int() of the three groups
DateVal(y, m, d) == [y |-> NumVal[y], m |-> NumVal[m], d |-> NumVal[d]]
\* DateVal.__str__ : '{}.{}.{}'.format(y, m, d)
DateStr(dv) == <<IntStr(dv.y), ".", IntStr(dv.m), ".", IntStr(dv.d)>>
NoDate == [y |-> -1, m |-> -1, d |-> -1]

\* The decimal digits of n >= 0, as character codes ("0" is 48)
RECURSIVE Digits(_)
Digits(n) == IF n < 10 THEN <<48 + n>> ELSE Append(Digits(n \div 10), 48 + (n % 10))

\* '%0wd' % n : the digits of n, zeros added in front up to the width w
PadZero(n, w) ==
    LET ds == Digits(n)
    IN  [i \in 1..(IF Len(ds) < w THEN w - Len(ds) ELSE 0) |-> 48] \o ds

\* DateVal.c : '%04d.%02d.%02d' % (y, m, d), as character codes ("." is 46)
DateVal_c(dv) == PadZero(dv.y, 4) \o <<46>> \o PadZero(dv.m, 2) \o <<46>> \o PadZero(dv.d, 2)

\* cmp of two strings: by the first character that differs, a proper prefix first
RECURSIVE cmp(_, _)
cmp(a, b) ==
    IF a = <<>> THEN (IF b = <<>> THEN 0 ELSE -1)
    ELSE IF b = <<>> THEN 1
    ELSE IF Head(a) < Head(b) THEN -1
    ELSE IF Head(a) > Head(b) THEN 1
    ELSE cmp(Tail(a), Tail(b))

\* DateVal.__cmp__
DateVal_unpadded_cmp(lhs, rhs) ==
    cmp(Digits(lhs.y) \o <<46>> \o Digits(lhs.m) \o <<46>> \o Digits(lhs.d),
        Digits(rhs.y) \o <<46>> \o Digits(rhs.m) \o <<46>> \o Digits(rhs.d))
DateVal_cmp(lhs, rhs) == cmp(DateVal_c(lhs), DateVal_c(rhs))

\* CommentableVal; cmt = <<>> stands for None (a captured comment starts with #)
CommentableVal(val, c) == [val |-> val, cmt |-> c]
dequoteCommentableVal(m) == CommentableVal(m.val, m.cmt)

CHFileLiteral(literal) == [kind |-> "lit", literal |-> literal]
CHFileLiteralPart(literal) == [kind |-> "part", literal |-> literal]

\* CHFileLiteral.rewrite
CHFileLiteral_rewrite(e) == e.literal \o <<"\n">>
\* CHFileLiteralPart.rewrite
CHFileLiteralPart_rewrite(e) == e.literal

Literal_rewrite(e) ==
    IF e.kind = "lit" THEN CHFileLiteral_rewrite(e) ELSE CHFileLiteralPart_rewrite(e)

RECURSIVE Literals_rewrite(_)
Literals_rewrite(es) ==
    IF es = <<>> THEN <<>> ELSE Literal_rewrite(Head(es)) \o Literals_rewrite(Tail(es))

\* CHFileCharHistEntry.__init__
CHFileCharHistEntry(date) == [date |-> date, elems |-> <<>>]

\* CHFileCharHistEntry.rewrite
CHFileCharHistEntry_rewrite(h) ==
    <<"\t">> \o DateStr(h.date) \o <<" ", "=", " ", "{", "\n">> \o Literals_rewrite(h.elems)

RECURSIVE HistEntries_rewrite(_)
HistEntries_rewrite(hs) ==
    IF hs = <<>> THEN <<>>
    ELSE CHFileCharHistEntry_rewrite(Head(hs)) \o HistEntries_rewrite(Tail(hs))

\* CHFileChar.__init__ ; attrs is the set of attributes that parse has assigned
\* (hasattr), the fields outside attrs hold placeholders that are never read
CHFileChar(id, start_line_literal, comment) ==
    [id |-> id, comment |-> comment,
     start_line_literal |-> CHFileLiteral(start_line_literal),
     start_line |-> -1, hist_entries |-> <<>>, elems |-> <<>>, literal_elems |-> <<>>,
     dirty |-> FALSE, is_last_in_file |-> FALSE, female |-> FALSE,
     attrs |-> {},
     name |-> CommentableVal(<<>>, <<>>), religion |-> CommentableVal(<<>>, <<>>),
     culture |-> CommentableVal(<<>>, <<>>), dynasty |-> CommentableVal(PyInt(0), <<>>),
     bdate |-> NoDate]

\* '\t<key>="{}"\n' or '\t<key>="{}"  {}\n'
QuotedField(key, cv) ==
    <<"\t", key, "=", QUOTE>> \o cv.val \o <<QUOTE>>
      \o (IF cv.cmt = <<>> THEN <<>> ELSE <<" ", " ">> \o cv.cmt) \o <<"\n">>

\* self.dynasty.val != u'0' : the value is an int and the literal a string
DynastyPrinted(c) == c.dynasty.val # PyStr(<<"0">>)

\* '\tdynasty={}\n' or '\tdynasty={}  {}\n'
DynastyField(cv) ==
    <<"\t", "dynasty", "=", IntStr(cv.val.int)>>
      \o (IF cv.cmt = <<>> THEN <<>> ELSE <<" ", " ">> \o cv.cmt) \o <<"\n">>

\* CHFileChar.rewrite, the branch of a dirty record up to the read of self.religion
DirtyHead(c) ==
    QuotedField("name", c.name)
      \o (IF c.female THEN <<"\t", "female", "=", "yes", "\n">> ELSE <<>>)
      \o (IF DynastyPrinted(c) THEN DynastyField(c.dynasty) ELSE <<>>)

\* CHFileChar.rewrite, the branch of a dirty record from the religion line on
DirtyTail(c) ==
    QuotedField("religion", c.religion)
      \o QuotedField("culture", c.culture)
      \o Literals_rewrite(c.elems)
      \o HistEntries_rewrite(c.hist_entries)
      \o (IF c.is_last_in_file THEN <<"}">> ELSE <<"}", "\n">>)

\* CHFileChar.rewrite : what is written, and whether the call returned (ok) or
\* raised AttributeError at self.religion, which parse never assigned
CHFileChar_rewrite(c) ==
    IF c.dirty
    THEN IF "religion" \in c.attrs
         THEN [ok |-> TRUE,
               out |-> CHFileLiteral_rewrite(c.start_line_literal) \o DirtyHead(c)
                         \o DirtyTail(c)]
         ELSE [ok |-> FALSE,
               out |-> CHFileLiteral_rewrite(c.start_line_literal) \o DirtyHead(c)]
    ELSE [ok |-> TRUE,
          out |-> CHFileLiteral_rewrite(c.start_line_literal)
                    \o Literals_rewrite(c.literal_elems)]

\* RewriteElems: the loop of CHFile.rewrite over self.elems; chs is ch.chars.
\* The loop stops at the first element whose rewrite raises.
RECURSIVE RewriteElems(_, _)
RewriteElems(es, chs) ==
    IF es = <<>> THEN [ok |-> TRUE, out |-> <<>>]
    ELSE LET e == Head(es)
             r == IF e.kind = "char" THEN CHFileChar_rewrite(chs[e.id])
                  ELSE [ok |-> TRUE, out |-> Literal_rewrite(e)]
             rest == RewriteElems(Tail(es), chs)
         IN  IF r.ok THEN [ok |-> rest.ok, out |-> r.out \o rest.out] ELSE r

\* ------------------------------------------------------------------ state
VARIABLES
    dir,                \* the history directory: sequence of [name, lines], a line is [txt, eol]
    melt_date,          \* culture-melt main: the DateVal of the --date argument
    melt_rules,         \* culture-melt main: the rules of the rule file, in file order
    preexisting,        \* the files present in the output directory before the rewrite: filename -> text
    pc,                 \* "main", "exit", "dir", "file", "char", "hist", "parsed", "melted",
                        \* "rewrite", "done", "error", "crash"
    fi,                 \* parse_dir: index in dir of the file being parsed (files done, at "dir")
    pos,                \* f: number of lines of the current file already read
    n_line,             \* n_line of CHFile.parse / CHFileChar.parse / CHFileCharHistEntry.parse
    chf,                \* CHFile.elems of the file being parsed
    files,              \* CharHistory.files : filename -> elems
    chars,              \* CharHistory.chars : id -> CHFileChar
    chars_by_dynasty,   \* CharHistory.chars_by_dynasty : dynasty -> sequence of ids
    c,                  \* the CHFileChar being parsed
    histent_brace_wait, \* CHFileChar.parse local
    d,                  \* CHFileChar.parse local (NoDate: unbound)
    buf, buf_idx, nest_level, birth,   \* CHFileCharHistEntry.parse locals
    err,                \* the CHParseError raised: [kind, line]
    out,                \* the output directory: filename -> [ok, data]
    opens, closes,      \* history: braces consumed by the running CHFileCharHistEntry.parse
    gbirth,             \* history: birth statements met by the running entry parse, by true depth
    entlog              \* history: one record per entry parse that returned

vars == <<dir, melt_date, melt_rules, preexisting, pc, fi, pos, n_line, chf, files, chars, chars_by_dynasty, c,
          histent_brace_wait, d, buf, buf_idx, nest_level, birth, err, out,
          opens, closes, gbirth, entlog>>

histLocals == <<buf, buf_idx, nest_level, birth, opens, closes, gbirth>>
db == <<files, chars, chars_by_dynasty>>

NoChar == CHFileChar(-1, <<>>, <<>>)
NoErr == [kind |-> "none", line |-> 0]
Count(s, a) == Cardinality({j \in 1..Len(s) : s[j] = a})

\* f.readline() : the next physical line with its terminator
ReadLine == LET l == dir[fi].lines[pos + 1] IN l.txt \o l.eol
AtEOF == pos = Len(dir[fi].lines)

\* line.endswith((u'\n', u'\r'))
HadEol(raw) == Len(raw) > 0 /\ raw[Len(raw)] \in EOLS
\* line.rstrip(u'\n') : a strip that leaves the carriage return
RStripEol_lf(raw) ==
    LET K == {j \in 1..Len(raw) : raw[j] # "\n"}
    IN  IF K = {} THEN <<>> ELSE SubSeq(raw, 1, SetMax(K))

\* line.rstrip(u'\r\n')
RStripEol(raw) ==
    LET K == {j \in 1..Len(raw) : raw[j] \notin EOLS}
    IN  IF K = {} THEN <<>> ELSE SubSeq(raw, 1, SetMax(K))

\* p_txt_file = ^.*?\.txt$
p_txt_file(name) ==
    Len(name) >= 2 /\ name[Len(name)] = "txt" /\ name[Len(name) - 1] = "."

Raise(kind, line) ==
    /\ pc' = "error"
    /\ err' = [kind |-> kind, line |-> line]

\* the call h_ent.parse(ch, self, f, n_line): locals at entry
EnterHist ==
    /\ buf' = <<>> /\ buf_idx' = 0 /\ nest_level' = 1 /\ birth' = FALSE
    /\ opens' = 0 /\ closes' = 0 /\ gbirth' = [b1 |-> 0, deep |-> 0]

\* ------------------------------------------------------------------ parsing
\* CharHistory.parse_dir : one iteration of the loop over the directory, with the
\* call of parse_file up to the first readline of CHFile.parse
parse_dir ==
    /\ pc = "dir"
    /\ IF fi < Len(dir)
       THEN LET filename == dir[fi + 1].name
            IN  /\ fi' = fi + 1
                /\ IF p_txt_file(filename)
                   THEN IF filename \in DOMAIN files
                        THEN Raise("filename_conflict", 0) /\ UNCHANGED <<pos, n_line, chf>>
                        ELSE /\ pc' = "file" /\ pos' = 0 /\ n_line' = 0 /\ chf' = <<>>
                             /\ UNCHANGED err
                   ELSE UNCHANGED <<pc, err, pos, n_line, chf>>
       ELSE /\ pc' = "parsed"
            /\ UNCHANGED <<fi, err, pos, n_line, chf>>
    /\ UNCHANGED <<dir, melt_date, melt_rules, preexisting, db, c, histent_brace_wait, d, histLocals, out, entlog>>

\* if id in self.ch.chars
IdIndexed_file(id) == \E i \in 1..Len(chf) : chf[i].kind = "char" /\ chf[i].id = id
IdIndexed(id) == id \in DOMAIN chars

\* CHFile.parse : one iteration of the loop over the lines of the source; at EOF
\* the return to parse_file, which stores the file
CHFile_parse ==
    /\ pc = "file"
    /\ IF AtEOF
       THEN /\ files' = (dir[fi].name :> chf) @@ files
            /\ pc' = "dir" /\ chf' = <<>>
            /\ UNCHANGED <<pos, n_line, err, c>>
       ELSE LET raw == ReadLine
                line_had_eol == HadEol(raw)
                line == RStripEol(raw)
                m == p_char_start(line)
            IN  /\ pos' = pos + 1 /\ n_line' = n_line + 1
                /\ files' = files
                /\ IF m.ok
                   THEN IF IdIndexed(NumVal[m.id])
                        THEN Raise("duplicate_id", n_line + 1) /\ UNCHANGED <<chf, c>>
                        ELSE /\ c' = [CHFileChar(NumVal[m.id], line, m.cmt)
                                        EXCEPT !.start_line = n_line + 1]
                             /\ pc' = "char"
                             /\ UNCHANGED <<chf, err>>
                   ELSE IF p_bare_comment_or_blank(line)
                   THEN /\ chf' = Append(chf, IF line_had_eol THEN CHFileLiteral(line)
                                              ELSE CHFileLiteralPart(line))
                        /\ UNCHANGED <<pc, err, c>>
                   ELSE Raise("unexpected_token", n_line + 1) /\ UNCHANGED <<chf, c>>
    /\ UNCHANGED <<dir, melt_date, melt_rules, preexisting, fi, chars, chars_by_dynasty, histent_brace_wait, d, histLocals,
                   out, entlog>>

\* CHFileChar._finalize : the record with the dynasty default, and the error raised
CHFileChar_finalize_noname(ch) ==
    LET c1 == IF "dynasty" \in ch.attrs THEN ch
              ELSE [ch EXCEPT !.dynasty = CommentableVal(PyInt(0), <<>>),
                              !.attrs = @ \cup {"dynasty"}]
    IN  [c |-> c1,
         err |-> IF "culture" \notin ch.attrs THEN "no_culture"
                 ELSE IF "bdate" \notin ch.attrs THEN "no_bdate"
                 ELSE "none"]
CHFileChar_finalize(ch) ==
    LET c1 == IF "dynasty" \in ch.attrs THEN ch
              ELSE [ch EXCEPT !.dynasty = CommentableVal(PyInt(0), <<>>),
                              !.attrs = @ \cup {"dynasty"}]
    IN  [c |-> c1,
         err |-> IF "culture" \notin ch.attrs THEN "no_culture"
                 ELSE IF "name" \notin ch.attrs THEN "no_name"
                 ELSE IF "bdate" \notin ch.attrs THEN "no_bdate"
                 ELSE "none"]

IndexDynasty_front(cbd, ch) ==
    LET k == ch.dynasty.val.int
    IN  IF k \in DOMAIN cbd THEN [cbd EXCEPT ![k] = <<ch.id>> \o @]
        ELSE (k :> <<ch.id>>) @@ cbd

\* ch.chars_by_dynasty after the record is indexed
IndexDynasty(cbd, ch) ==
    LET k == ch.dynasty.val.int
    IN  IF k \in DOMAIN cbd THEN [cbd EXCEPT ![k] = Append(@, ch.id)]
        ELSE (k :> <<ch.id>>) @@ cbd

\* CHFileChar.parse : one iteration of the loop over the lines of the record
CHFileChar_parse ==
    /\ pc = "char"
    /\ IF AtEOF
       THEN /\ Raise("eof_char", n_line)
            /\ UNCHANGED <<pos, n_line, chf, db, c, histent_brace_wait, d, histLocals>>
       ELSE
       LET raw == ReadLine
           line_had_eol == HadEol(raw)
           line == RStripEol(raw)
           c1 == [c EXCEPT !.literal_elems =
                     Append(@, IF line_had_eol THEN CHFileLiteral(line)
                               ELSE CHFileLiteralPart(line))]
           nl == n_line + 1
           m_name == p_char_name(line)
           m_female == p_char_female(line)
           m_dynasty == p_char_dynasty(line)
           m_religion == p_char_religion(line)
           m_culture == p_char_culture(line)
           m_start == p_char_hist_entry_start(line)
           m_multi == p_char_hist_entry_multi_start(line)
           Field(c2) == /\ c' = c2
                        /\ UNCHANGED <<pc, err, chf, db, histent_brace_wait, d, histLocals>>
           Fail(kind, at) == /\ Raise(kind, at) /\ c' = c1
                             /\ UNCHANGED <<chf, db, histent_brace_wait, d, histLocals>>
       IN
       /\ pos' = pos + 1 /\ n_line' = nl
       /\ IF p_one_line_one_block(line) THEN Fail("one_line_block", nl)
          ELSE IF histent_brace_wait
          THEN IF ~p_char_hist_entry_multi_finish(line) THEN Fail("multi_start_token", nl)
               ELSE /\ c' = [c1 EXCEPT !.hist_entries = Append(@, CHFileCharHistEntry(d))]
                    /\ pc' = "hist" /\ EnterHist
                    /\ UNCHANGED <<err, chf, db, histent_brace_wait, d>>
          ELSE IF m_name.ok
          THEN Field([c1 EXCEPT !.name = dequoteCommentableVal(m_name),
                                !.attrs = @ \cup {"name"}])
          ELSE IF m_female.ok /\ m_female.val = "yes"
          THEN Field([c1 EXCEPT !.female = TRUE])
          ELSE IF m_dynasty.ok
          THEN Field([c1 EXCEPT !.dynasty = CommentableVal(PyInt(NumVal[m_dynasty.val[1]]),
                                                           m_dynasty.cmt),
                                !.attrs = @ \cup {"dynasty"}])
          ELSE IF m_religion.ok
          THEN Field([c1 EXCEPT !.religion = dequoteCommentableVal(m_religion),
                                !.attrs = @ \cup {"religion"}])
          ELSE IF m_culture.ok
          THEN Field([c1 EXCEPT !.culture = dequoteCommentableVal(m_culture),
                                !.attrs = @ \cup {"culture"}])
          ELSE IF m_start.ok
          THEN /\ d' = DateVal(m_start.y, m_start.m, m_start.d)
               /\ c' = [c1 EXCEPT !.hist_entries = Append(@, CHFileCharHistEntry(d'))]
               /\ pc' = "hist" /\ EnterHist
               /\ UNCHANGED <<err, chf, db, histent_brace_wait>>
          ELSE IF m_multi.ok
          THEN /\ d' = DateVal(m_multi.y, m_multi.m, m_multi.d)
               /\ histent_brace_wait' = TRUE
               /\ c' = c1
               /\ UNCHANGED <<pc, err, chf, db, histLocals>>
          ELSE IF p_char_end(line)
          THEN LET fin == CHFileChar_finalize(
                              IF line_had_eol THEN c1
                              ELSE [c1 EXCEPT !.is_last_in_file = TRUE])
               IN  IF fin.err # "none"
                   THEN /\ Raise(fin.err, c.start_line) /\ c' = fin.c
                        /\ UNCHANGED <<chf, db, histent_brace_wait, d, histLocals>>
                   ELSE /\ chars' = (fin.c.id :> fin.c) @@ chars
                        /\ chars_by_dynasty' = IndexDynasty(chars_by_dynasty, fin.c)
                        /\ chf' = Append(chf, [kind |-> "char", id |-> fin.c.id])
                        /\ pc' = "file" /\ c' = NoChar
                        /\ UNCHANGED <<err, files, histent_brace_wait, d, histLocals>>
          ELSE Field([c1 EXCEPT !.elems = Append(@, CHFileLiteral(line))])
    /\ UNCHANGED <<dir, melt_date, melt_rules, preexisting, fi, out, entlog>>

\* The element for the text up to a brace: partial when more follows on the line
BraceElem(group, rest) ==
    IF Len(rest) > 0 /\ ~p_blank(rest) THEN CHFileLiteralPart(group) ELSE CHFileLiteral(group)

\* The canonical birth element of an entry of the given date
BirthElem(m, date) ==
    CHFileLiteral(IF m.g1 # <<"yes">>
                  THEN <<"\t", "\t", "birth", "=", QUOTE>> \o DateStr(date) \o <<QUOTE>>
                  ELSE <<"\t", "\t", "birth", "=", "yes">>)

\* the entry depth that the consumed braces give: 1 + opened - closed
TrueDepth == 1 + opens - closes

\* CHFileCharHistEntry.parse : one iteration of the while loop
CHFileCharHistEntry_parse ==
    /\ pc = "hist" /\ nest_level > 0
    /\ IF Len(buf) = buf_idx
       THEN IF AtEOF
            THEN /\ Raise("eof_hist", n_line)
                 /\ UNCHANGED <<pos, n_line, c, histLocals>>
            ELSE /\ pos' = pos + 1 /\ n_line' = n_line + 1
                 /\ buf_idx' = 0 /\ buf' = RStripEol(ReadLine)
                 /\ c' = [c EXCEPT !.literal_elems = Append(@, CHFileLiteral(buf'))]
                 /\ UNCHANGED <<pc, err, nest_level, birth, opens, closes, gbirth>>
       ELSE
       LET frag == From(buf, buf_idx + 1)
           h == Len(c.hist_entries)
           date == c.hist_entries[h].date
           mb == p_char_hist_entry_birth(frag)
           mo == p_open_brace(frag)
           mc == p_close_brace(frag)
           \* consume k lexemes of the fragment and append the elements es
           Consume(k, es, level, b) ==
               /\ buf_idx' = buf_idx + k
               /\ c' = [c EXCEPT !.hist_entries[h].elems = @ \o es]
               /\ nest_level' = level /\ birth' = b
               /\ opens' = opens + Count(SubSeq(frag, 1, k), "{")
               /\ closes' = closes + Count(SubSeq(frag, 1, k), "}")
               /\ gbirth' = IF ~mb.ok THEN gbirth
                            ELSE IF TrueDepth = 1 THEN [gbirth EXCEPT !.b1 = @ + 1]
                            ELSE [gbirth EXCEPT !.deep = @ + 1]
               /\ UNCHANGED <<pc, err, pos, n_line, buf>>
       IN
       IF nest_level = 1 /\ mb.ok
       THEN IF birth
            THEN /\ Raise("multi_birth", n_line)
                 /\ UNCHANGED <<pos, n_line, c, histLocals>>
            ELSE Consume(Len(frag), <<BirthElem(mb, date)>>, nest_level, TRUE)
       ELSE IF mo.ok
       THEN Consume(mo.end, <<BraceElem(SubSeq(frag, 1, mo.end), From(frag, mo.end + 1))>>,
                    nest_level + 1, birth)
       ELSE IF mc.ok
       THEN Consume(mc.end, <<BraceElem(SubSeq(frag, 1, mc.end), From(frag, mc.end + 1))>>,
                    nest_level - 1, birth)
       ELSE Consume(Len(frag), IF ~p_blank(frag) THEN <<CHFileLiteral(frag)>> ELSE <<>>,
                    nest_level, birth)
    /\ UNCHANGED <<dir, melt_date, melt_rules, preexisting, fi, chf, db, histent_brace_wait, d, out, entlog>>

\* CHFileCharHistEntry.parse after the loop, and the return into CHFileChar.parse
CHFileCharHistEntry_return ==
    /\ pc = "hist" /\ nest_level = 0
    /\ IF buf_idx < Len(buf) /\ ~p_bare_comment_or_blank(From(buf, buf_idx + 1))
       THEN /\ Raise("trailing", n_line)
            /\ UNCHANGED <<c, histent_brace_wait, d, histLocals, entlog>>
       ELSE /\ pc' = "char"
            /\ c' = IF birth THEN [c EXCEPT !.bdate = d, !.attrs = @ \cup {"bdate"}] ELSE c
            /\ d' = IF histent_brace_wait THEN NoDate ELSE d
            /\ histent_brace_wait' = FALSE
            /\ entlog' = Append(entlog, [id |-> c.id, date |-> d, is_birth |-> birth,
                                         b1 |-> gbirth.b1, deep |-> gbirth.deep,
                                         opens |-> opens, closes |-> closes])
            /\ buf' = <<>> /\ buf_idx' = 0 /\ nest_level' = 1 /\ birth' = FALSE
            /\ opens' = 0 /\ closes' = 0 /\ gbirth' = [b1 |-> 0, deep |-> 0]
            /\ UNCHANGED err
    /\ UNCHANGED <<dir, melt_date, melt_rules, preexisting, fi, pos, n_line, chf, db, out>>

\* ------------------------------------------------------------------ mutation, rewrite
\* cultures that the rules give
RuleCultures == {<<"german">>}

\* '# melted from: ' + c.culture.val
MeltComment(val) == <<"#", " ", "melted", " ", "from", ":", " ">> \o val

\* transform : the body of the loop over the records of a rule's dynasty, for the
\* record id and the culture new_cul that the rule gives it
Melt(id, new_cul) ==
    /\ pc = "parsed"
    /\ ~chars[id].dirty
    /\ new_cul # chars[id].culture.val
    /\ chars' = [chars EXCEPT ![id].culture = CommentableVal(new_cul, MeltComment(@.val)),
                              ![id].dirty = TRUE]
    /\ UNCHANGED <<dir, melt_date, melt_rules, preexisting, pc, fi, pos, n_line, chf, files, chars_by_dynasty, c,
                   histent_brace_wait, d, histLocals, err, out, entlog>>

\* the rules of the rule file: a dynasty, its early and its later culture
MeltRules ==
    {[dyn_id |-> k, cul_early |-> <<"german">>, cul_later |-> <<"frankish">>] : k \in {0, 5}}

\* a variant of new_cul that gives the early culture to a record born on the date
new_cul_le(r, ch) == IF DateVal_cmp(ch.bdate, melt_date) <= 0 THEN r.cul_early ELSE r.cul_later

\* transform : new_cul = r.cul_early if c.bdate < melt_date else r.cul_later
new_cul(r, ch) == IF DateVal_cmp(ch.bdate, melt_date) < 0 THEN r.cul_early ELSE r.cul_later

\* transform : the record ch after the body of the loop over the records of the
\* dynasty of the rule r
MeltChar(r, ch) ==
    IF new_cul(r, ch) # ch.culture.val
    THEN [ch EXCEPT !.culture = CommentableVal(new_cul(r, ch), MeltComment(@.val)),
                    !.dirty = TRUE]
    ELSE ch

\* transform : the records after the body of the loop over the rules, for the
\* rule r. chars_by_dynasty holds each record of the dynasty once.
ApplyRule(chs, r) ==
    IF r.dyn_id \notin DOMAIN chars_by_dynasty THEN chs
    ELSE LET ids == {chars_by_dynasty[r.dyn_id][i] : i \in 1..Len(chars_by_dynasty[r.dyn_id])}
         IN  [id \in DOMAIN chs |-> IF id \in ids THEN MeltChar(r, chs[id]) ELSE chs[id]]

\* transform : the records after the loop over the rules, taken in their order
RECURSIVE ApplyRules(_, _)
ApplyRules(chs, rules) ==
    IF rules = <<>> THEN chs
    ELSE ApplyRules(ApplyRule(chs, Head(rules)), Tail(rules))

\* transform(melt_rules, char_hist, melt_date), called by main once parse_dir has
\* returned
transform ==
    /\ pc = "parsed"
    /\ chars' = ApplyRules(chars, melt_rules)
    /\ pc' = "melted"
    /\ UNCHANGED <<dir, melt_date, melt_rules, preexisting, fi, pos, n_line, chf, files,
                   chars_by_dynasty, c, histent_brace_wait, d, histLocals, err, out, entlog>>

CHFile_rewrite_overwrite(filename) ==
    /\ pc \in {"parsed", "melted", "rewrite"}
    /\ filename \notin DOMAIN out
    /\ LET r == RewriteElems(files[filename], chars)
       IN  /\ out' = (filename :> r) @@ out
           /\ pc' = IF ~r.ok THEN "crash"
                    ELSE IF DOMAIN files = DOMAIN out' THEN "done" ELSE "rewrite"
    /\ UNCHANGED <<dir, melt_date, melt_rules, preexisting, fi, pos, n_line, chf, db, c,
                   histent_brace_wait, d, histLocals, err, entlog>>

\* CharHistory.rewrite : one iteration of the loop over self.files, the call of
\* CHFile.rewrite for the file of that name
CHFile_rewrite(filename) ==
    /\ pc \in {"parsed", "melted", "rewrite"}
    /\ filename \notin DOMAIN out
    /\ IF filename \in DOMAIN preexisting
       THEN \* assert not os.path.exists(path)
            pc' = "crash" /\ out' = out
       ELSE LET r == RewriteElems(files[filename], chars)
            IN  /\ out' = (filename :> r) @@ out
                /\ pc' = IF ~r.ok THEN "crash"
                         ELSE IF DOMAIN files = DOMAIN out' THEN "done" ELSE "rewrite"
    /\ UNCHANGED <<dir, melt_date, melt_rules, preexisting, fi, pos, n_line, chf, db, c,
                   histent_brace_wait, d, histLocals, err, entlog>>

\* culture-melt main : the output directory, which exists when it holds a file. It
\* is removed under --force, main returns 1 without it; then os.makedirs.
main_output_dir(force) ==
    /\ pc = "main"
    /\ IF preexisting # <<>> /\ ~force
       THEN pc' = "exit" /\ UNCHANGED preexisting
       ELSE pc' = "dir" /\ preexisting' = <<>>
    /\ UNCHANGED <<dir, melt_date, melt_rules, fi, pos, n_line, chf, db, c,
                   histent_brace_wait, d, histLocals, err, out, entlog>>

\* a variant of main_rewrite where the rewrite may start before the call of
\* transform
main_rewrite_early ==
    /\ pc \in {"parsed", "melted", "rewrite"}
    /\ \E filename \in DOMAIN files : CHFile_rewrite(filename)

\* culture-melt main : char_hist.rewrite(output_dir), the statement after the
\* call of transform
main_rewrite ==
    /\ pc \in {"melted", "rewrite"}
    /\ \E filename \in DOMAIN files : CHFile_rewrite(filename)

\* The value that the last except clause of main returns (any exception that no
\* earlier clause names): culture-melt, culture-rewrite
melt_except_status == 255
rewrite_except_status == 255

\* culture-melt main : the return value, -1 while main runs. A CHParseError leaves
\* through its own except clause, any other exception through the last one.
culture_melt_main ==
    IF pc = "error" THEN 2
    ELSE IF pc = "crash" THEN melt_except_status
    ELSE IF pc = "done" THEN 0
    ELSE -1

\* culture-rewrite main : the return value, -1 while main runs. main has one except
\* clause, which takes every exception: the CHParseError of parse_dir and the
\* KeyError of char_hist.files['italian_tuscan.txt'].
culture_rewrite_main ==
    IF pc = "error" THEN rewrite_except_status
    ELSE IF pc = "parsed"
    THEN (IF <<"italian_tuscan", ".", "txt">> \in DOMAIN files THEN 0
          ELSE rewrite_except_status)
    ELSE -1

\* ------------------------------------------------------------------ inputs
\* Lines of source text (without terminator)
ln_open(id) == <<id, " ", "=", " ", "{">>
ln_open_cmt(id) == <<id, "=", "{", " ", "#", " ", "x">>
ln_close == <<"}">>
ln_comment == <<"#", " ", "c">>
ln_blank == <<>>
ln_name == <<"\t", "name", "=", QUOTE, "Bob", QUOTE>>
ln_name_cmt == <<"name", " ", "=", " ", "Ann", " ", "#", "n">>
ln_female == <<"\t", "female", " ", "=", " ", "yes">>
ln_dynasty == <<"\t", "dynasty", "=", "5", " ", "#", " ", "d">>
ln_dynasty0 == <<"\t", "dynasty", " ", "=", " ", "0">>
ln_religion == <<"\t", "religion", "=", QUOTE, "catholic", QUOTE>>
ln_culture == <<"\t", "culture", " ", "=", " ", "saxon", " ", "#", "c">>
ln_trait == <<"\t", "trait", "=", "brave">>
ln_nick == <<"\t", "give_nickname", " ", "=", " ", "nick_the_bold">>
ln_entry(y) == <<"\t", y, ".", "1", ".", "1", " ", "=", " ", "{">>
ln_entry_multi(y) == <<"\t", y, ".", "12", ".", "07", " ", "=">>
ln_brace == <<"\t", "{">>
ln_entry_close == <<"\t", "}">>
ln_birth == <<"\t", "\t", "birth", "=", "yes">>
ln_birth_q == <<"\t", "\t", "birth", " ", "=", " ", QUOTE, "1120", ".", "12", ".", "7", QUOTE>>
ln_death == <<"\t", "\t", "death", " ", "=", " ", "yes">>
ln_sub_open == <<"\t", "\t", "a", " ", "=", " ", "{">>
ln_sub_close == <<"\t", "\t", "}">>
ln_two_open == <<"\t", "\t", "a", "=", "{", " ", "b", "=", "{">>
ln_two_close == <<"\t", "\t", "}", " ", "}">>
ln_effect == <<"\t", "\t", "x", " ", "=", " ", "y">>
ln_close_tail == <<"}", " ", "x">>
ln_entry_close_tail == <<"\t", "}", " ", "x">>
ln_entry_close_cmt == <<"\t", "}", " ", "#", " ", "e">>
ln_female_cmt == <<"\t", "female", " ", "=", " ", "yes", " ", "#", " ", "f">>
ln_brace_cmt == <<"\t", "{", " ", "#", " ", "b">>
ln_one_line == <<"\t", "\t", "a", " ", "=", " ", "{", " ", "x", " ", "}">>

\* The optional parts of a generated record body, in source order
Chunks == <<
    <<ln_culture>>,
    <<ln_religion>>,
    <<ln_trait>>,
    <<ln_dynasty>>,
    <<ln_dynasty0>>,
    <<ln_name>>,
    <<ln_female>>,
    <<ln_entry("867"), ln_birth, ln_entry_close>>,
    <<ln_entry("900"), ln_death, ln_blank, ln_entry_close>>,
    <<ln_entry_multi("1120"), ln_brace, ln_birth_q, ln_entry_close>>,
    <<ln_nick>> >>

\* The lines of a generated nested-entry body
BraceLines == {ln_sub_open, ln_sub_close, ln_two_open, ln_two_close, ln_birth,
               ln_effect, ln_one_line}

\* The chunks of S, in source order, from chunk i on
RECURSIVE Body(_, _)
Body(S, i) ==
    IF i > Len(Chunks) THEN <<>>
    ELSE (IF i \in S THEN Chunks[i] ELSE <<>>) \o Body(S, i + 1)

RECURSIVE SeqsUpTo(_, _)
SeqsUpTo(A, n) ==
    IF n = 0 THEN {<<>>}
    ELSE LET P == SeqsUpTo(A, n - 1)
         IN  P \cup {Append(q, a) : q \in {r \in P : Len(r) = n - 1}, a \in A}

EolStyles == {"lf", "crlf", "nolast"}

\* A source file of the given lines; the style gives the line terminators
MkFile(name, txts, style) ==
    [name |-> name,
     lines |-> [i \in 1..Len(txts) |->
                  [txt |-> txts[i],
                   eol |-> IF style = "crlf" THEN <<"\r", "\n">>
                           ELSE IF style = "nolast" /\ i = Len(txts) THEN <<>>
                           ELSE <<"\n">>]]]

\* a complete record, and one without religion and dynasty
Rec(id) == <<ln_open_cmt(id), ln_name, ln_trait, ln_religion, ln_culture, ln_dynasty,
             ln_entry("867"), ln_birth, ln_entry_close, ln_close>>
RecLow(id) == <<ln_open(id), ln_name_cmt, ln_culture, ln_entry("900"), ln_birth,
                ln_entry_close, ln_close>>

\* One file with one record whose body is a choice of chunks
FieldDirs ==
    {<<MkFile(<<"a", ".", "txt">>, <<ln_open("1")>> \o Body(S, 1) \o <<ln_close>>, st)>> :
        S \in {T \in SUBSET (1..Len(Chunks)) : Cardinality(T) <= MaxBody},
        st \in EolStyles}

\* One file with one record with one nested entry whose body is free
NestDirs ==
    {<<MkFile(<<"n", ".", "txt">>,
              <<ln_open("1"), ln_name, ln_religion, ln_culture, ln_entry("867")>>
                \o b \o <<ln_entry_close, ln_close>>, "lf")>> :
        b \in SeqsUpTo(BraceLines, MaxEntryLines)}

\* Directories of several files
MultiFiles ==
    {MkFile(<<"a", ".", "txt">>,
            <<ln_comment>> \o RecLow("2") \o <<ln_blank>> \o Rec("1"), "lf"),
     MkFile(<<"b", ".", "txt">>, Rec("2"), "crlf"),
     MkFile(<<"c", ".", "txt">>, RecLow("7") \o Rec("07"), "lf"),
     MkFile(<<"d", ".", "txt">>, Rec("5") \o <<ln_comment>>, "nolast"),
     MkFile(<<"notes", ".", "md">>, <<ln_effect>>, "lf")}

MultiDirs ==
    {q \in SeqsUpTo(MultiFiles, MaxFiles) :
        /\ Len(q) >= 1
        /\ \A i, j \in 1..Len(q) : i # j => q[i].name # q[j].name}

\* Single files that exhibit particular constructs
ScenarioTexts == {
    \* text after the brace of an entry opener
    <<ln_open("1"), ln_name, ln_religion, ln_culture,
      ln_entry("867") \o <<" ">> \o <<"add_trait", " ", "=", " ", "brave">>,
      ln_birth, ln_entry_close, ln_close>>,
    \* a birth statement below two sub-blocks opened on one line
    <<ln_open("1"), ln_name, ln_religion, ln_culture, ln_entry("867"),
      ln_two_open, ln_sub_close, ln_birth, ln_two_close, ln_close>>,
    \* two birth statements at the top of an entry, the second after two sub-blocks
    \* closed on one line
    <<ln_open("1"), ln_name, ln_religion, ln_culture, ln_entry("867"),
      ln_birth, ln_sub_open, ln_sub_open, ln_two_close, ln_birth,
      ln_two_open, ln_sub_close, ln_sub_close, ln_entry_close, ln_close,
      ln_open("2"), ln_name, ln_culture, ln_entry("900"), ln_birth, ln_entry_close,
      ln_close>>,
    \* text after the closing brace of a record, and a second record
    <<ln_open("1"), ln_name, ln_religion, ln_culture, ln_entry("867"), ln_birth,
      ln_entry_close, ln_close_tail,
      ln_open("2"), ln_name_cmt, ln_entry("900"), ln_entry_close, ln_close>>,
    \* a token, and a comment, after the closing brace of an entry
    <<ln_open("1"), ln_name, ln_religion, ln_culture, ln_entry("867"), ln_birth,
      ln_entry_close_tail, ln_close>>,
    <<ln_open("1"), ln_name, ln_religion, ln_culture, ln_entry("867"), ln_birth,
      ln_entry_close_cmt, ln_close>>,
    \* the female field with a comment
    <<ln_open("1"), ln_name, ln_female_cmt, ln_dynasty, ln_religion, ln_culture,
      ln_entry("867"), ln_birth, ln_entry_close, ln_close>> }

ScenarioDirs == {<<MkFile(<<"s", ".", "txt">>, t, "lf")>> : t \in ScenarioTexts}

Dirs == FieldDirs \cup NestDirs \cup MultiDirs \cup ScenarioDirs

\* ------------------------------------------------------------------ specification
\* CharHistory.__init__, before parse_dir
Init ==
    /\ dir \in Dirs
    /\ melt_date = DateVal("900", "1", "1")
    /\ melt_rules = <<>>
    /\ preexisting = <<>>
    /\ pc = "dir" /\ fi = 0 /\ pos = 0 /\ n_line = 0 /\ chf = <<>>
    /\ files = <<>> /\ chars = <<>> /\ chars_by_dynasty = <<>>
    /\ c = NoChar /\ histent_brace_wait = FALSE /\ d = NoDate
    /\ buf = <<>> /\ buf_idx = 0 /\ nest_level = 1 /\ birth = FALSE
    /\ err = NoErr /\ out = <<>>
    /\ opens = 0 /\ closes = 0 /\ gbirth = [b1 |-> 0, deep |-> 0]
    /\ entlog = <<>>

\* Dates of births and of the --date argument
DateYears == {0, 1, 2, 10, 1120, 9999}
DateMonths == {0, 1, 2, 12, 99}
DateDays == {0, 1, 2, 12, 99}
Dates == {[y |-> yy, m |-> mm, d |-> dd] : yy \in DateYears, mm \in DateMonths, dd \in DateDays}

\* a registered record of the dynasty 0 born at the date bdate
Born(id, bdate) ==
    [CHFileChar(id, ln_open("1"), <<>>) EXCEPT
        !.start_line = 1,
        !.name = CommentableVal(<<"Bob">>, <<>>),
        !.culture = CommentableVal(<<"saxon">>, <<>>),
        !.dynasty = CommentableVal(PyInt(0), <<>>),
        !.bdate = bdate,
        !.attrs = {"name", "culture", "dynasty", "bdate"}]

\* culture-melt main after parse_dir, for a database of one record: any date of
\* birth, any date of the --date argument
InitDates ==
    /\ dir = <<>>
    /\ melt_date \in Dates
    /\ melt_rules \in {<<r>> : r \in MeltRules}
    /\ preexisting = <<>>
    /\ pc = "parsed" /\ fi = 0 /\ pos = 0 /\ n_line = 0 /\ chf = <<>>
    /\ files = <<>>
    /\ \E bdate \in Dates : chars = (1 :> Born(1, bdate))
    /\ chars_by_dynasty = (0 :> <<1>>)
    /\ c = NoChar /\ histent_brace_wait = FALSE /\ d = NoDate
    /\ buf = <<>> /\ buf_idx = 0 /\ nest_level = 1 /\ birth = FALSE
    /\ err = NoErr /\ out = <<>>
    /\ opens = 0 /\ closes = 0 /\ gbirth = [b1 |-> 0, deep |-> 0]
    /\ entlog = <<>>

NextDates == transform

SpecDates == InitDates /\ [][NextDates]_vars

\* A record with an entry that holds a birth statement, then the entry opened by
\* the lines opener, with the body b
TwoEntries(id, opener, b) ==
    <<ln_open(id), ln_name, ln_religion, ln_culture, ln_entry("900"), ln_birth,
      ln_entry_close>> \o opener \o b \o <<ln_entry_close, ln_close>>

\* the entry opener of the date y.12.07 on one line, and on two lines
OneLineOpener(y) == <<ln_entry_multi(y) \o <<" ", "{">>>>
TwoLineOpener(y) == <<ln_entry_multi(y), ln_brace>>

\* Two sources with one record each, the same but for the opener of the second
\* entry (on two lines in m.txt, on one line in s.txt), read in either order
OpenerPairs ==
    UNION {LET m == MkFile(<<"m", ".", "txt">>, TwoEntries("1", TwoLineOpener("867"), b), "lf")
               s == MkFile(<<"s", ".", "txt">>, TwoEntries("2", OneLineOpener("867"), b), "lf")
           IN  {<<m, s>>, <<s, m>>} : b \in SeqsUpTo(BraceLines, MaxEntryLines)}

\* One source in which another line follows the line that holds only the date
OpenerBroken ==
    {<<MkFile(<<"m", ".", "txt">>,
              TwoEntries("1", <<ln_entry_multi("867"), x, ln_brace>>, <<ln_birth>>), "lf")>> :
        x \in {ln_comment, ln_blank, ln_birth, ln_effect, ln_sub_open, ln_brace_cmt,
               ln_entry_multi("900"), ln_entry("900"), ln_entry_close, ln_close}}

InitOpeners ==
    /\ dir \in OpenerPairs \cup OpenerBroken
    /\ melt_date = DateVal("900", "1", "1")
    /\ melt_rules = <<>>
    /\ preexisting = <<>>
    /\ pc = "dir" /\ fi = 0 /\ pos = 0 /\ n_line = 0 /\ chf = <<>>
    /\ files = <<>> /\ chars = <<>> /\ chars_by_dynasty = <<>>
    /\ c = NoChar /\ histent_brace_wait = FALSE /\ d = NoDate
    /\ buf = <<>> /\ buf_idx = 0 /\ nest_level = 1 /\ birth = FALSE
    /\ err = NoErr /\ out = <<>>
    /\ opens = 0 /\ closes = 0 /\ gbirth = [b1 |-> 0, deep |-> 0]
    /\ entlog = <<>>

\* CharHistory used with an output directory that may hold files: a directory of
\* several sources, and an output directory that is empty or holds d.txt or a.txt
InitOutDir ==
    /\ dir \in MultiDirs
    /\ melt_date = DateVal("900", "1", "1")
    /\ melt_rules = <<>>
    /\ preexisting \in {<<>>, (<<"d", ".", "txt">> :> <<"old", "\n">>),
                        (<<"a", ".", "txt">> :> <<"old">>)}
    /\ pc = "dir" /\ fi = 0 /\ pos = 0 /\ n_line = 0 /\ chf = <<>>
    /\ files = <<>> /\ chars = <<>> /\ chars_by_dynasty = <<>>
    /\ c = NoChar /\ histent_brace_wait = FALSE /\ d = NoDate
    /\ buf = <<>> /\ buf_idx = 0 /\ nest_level = 1 /\ birth = FALSE
    /\ err = NoErr /\ out = <<>>
    /\ opens = 0 /\ closes = 0 /\ gbirth = [b1 |-> 0, deep |-> 0]
    /\ entlog = <<>>

Next ==
    \/ parse_dir
    \/ CHFile_parse
    \/ CHFileChar_parse
    \/ CHFileCharHistEntry_parse
    \/ CHFileCharHistEntry_return
    \/ \E id \in DOMAIN chars, cul \in RuleCultures : Melt(id, cul)
    \/ \E filename \in DOMAIN files : CHFile_rewrite(filename)

Spec == Init /\ [][Next]_vars

\* The parse of an entry runs to its end: the interpreter executes the while loop
\* of CHFileCharHistEntry.parse and the statements after it without interruption
SpecFair ==
    /\ Init /\ [][Next]_vars
    /\ WF_vars(CHFileCharHistEntry_parse)
    /\ WF_vars(CHFileCharHistEntry_return)

SpecOutDir == InitOutDir /\ [][Next]_vars

\* The rule lists of culture-melt: up to MaxRules rules, in the order of the rule
\* file. A rule names a dynasty with records or without, and its early culture is
\* the culture of the source records or another one.
MaxRules == 2

MeltRuleLists ==
    SeqsUpTo(MeltRules \cup
             {[dyn_id |-> 5, cul_early |-> <<"saxon">>, cul_later |-> <<"frankish">>],
              [dyn_id |-> 9, cul_early |-> <<"german">>, cul_later |-> <<"frankish">>]},
             MaxRules)

\* culture-melt main, entered with the --date argument and the rules read: any
\* history directory, the output directory absent or present with a file
InitMelt ==
    /\ dir \in MultiDirs
    /\ melt_date \in {DateVal("900", "1", "1"), DateVal("867", "1", "1")}
    /\ melt_rules \in MeltRuleLists
    /\ preexisting \in {<<>>, (<<"d", ".", "txt">> :> <<"old", "\n">>)}
    /\ pc = "main" /\ fi = 0 /\ pos = 0 /\ n_line = 0 /\ chf = <<>>
    /\ files = <<>> /\ chars = <<>> /\ chars_by_dynasty = <<>>
    /\ c = NoChar /\ histent_brace_wait = FALSE /\ d = NoDate
    /\ buf = <<>> /\ buf_idx = 0 /\ nest_level = 1 /\ birth = FALSE
    /\ err = NoErr /\ out = <<>>
    /\ opens = 0 /\ closes = 0 /\ gbirth = [b1 |-> 0, deep |-> 0]
    /\ entlog = <<>>

\* culture-melt main : the statements of main in their order
NextMelt ==
    \/ \E force \in BOOLEAN : main_output_dir(force)
    \/ parse_dir
    \/ CHFile_parse
    \/ CHFileChar_parse
    \/ CHFileCharHistEntry_parse
    \/ CHFileCharHistEntry_return
    \/ transform
    \/ main_rewrite

SpecMelt == InitMelt /\ [][NextMelt]_vars

SpecOpeners == InitOpeners /\ [][Next]_vars

\* ------------------------------------------------------------------ claims
\* the source file of that name
SrcOf(filename) == CHOOSE f \in {dir[i] : i \in 1..Len(dir)} : f.name = filename

\* The physical lines of a source file, each terminator replaced by one \n
RECURSIVE NormalizedLines(_)
NormalizedLines(ls) ==
    IF ls = <<>> THEN <<>>
    ELSE Head(ls).txt \o (IF Head(ls).eol # <<>> THEN <<"\n">> ELSE <<>>)
           \o NormalizedLines(Tail(ls))

\* the records of a parsed file
RecordsOf(filename) ==
    {files[filename][i].id : i \in {j \in 1..Len(files[filename]) :
                                       files[filename][j].kind = "char"}}

NoneDirty(filename) == \A id \in RecordsOf(filename) : ~chars[id].dirty

DirtyOf(filename) == {id \in RecordsOf(filename) : chars[id].dirty}

\* the text of the source lines a..b, terminators normalized
SrcText(filename, a, b) == NormalizedLines(SubSeq(SrcOf(filename).lines, a, b))

\* C2: when exactly one record of a file is dirty, with one field replaced, the
\* rewritten file still holds, unchanged, everything that precedes the record's
\* opening line and everything that follows its terminator line: the blocks of
\* all other records and all top-level literal lines.
C2_Frame ==
    \A filename \in DOMAIN out : \A id \in RecordsOf(filename) :
        DirtyOf(filename) = {id} =>
            LET first == chars[id].start_line
                last == first + Len(chars[id].literal_elems)
                pre == SrcText(filename, 1, first - 1)
                post == SrcText(filename, last + 1, Len(SrcOf(filename).lines))
                o == out[filename].out
            IN  /\ Len(o) >= Len(pre) + Len(post)
                /\ SubSeq(o, 1, Len(pre)) = pre
                /\ SubSeq(o, Len(o) - Len(post) + 1, Len(o)) = post

\* the lexemes of a file in reading order
RECURSIVE FileText(_)
FileText(ls) == IF ls = <<>> THEN <<>> ELSE Head(ls).txt \o FileText(Tail(ls))

\* s is one block: it opens with the first brace and its last lexeme is the brace
\* that closes it, all braces between being balanced and well nested
OneBlock(s) ==
    LET Depth(i) == Cardinality({j \in 1..i : s[j] = "{"})
                      - Cardinality({j \in 1..i : s[j] = "}"})
        O == {j \in 1..Len(s) : s[j] = "{"}
    IN  /\ O # {}
        /\ \A i \in 1..(SetMin(O) - 1) : s[i] # "}"
        /\ \A i \in SetMin(O)..(Len(s) - 1) : Depth(i) >= 1
        /\ Depth(Len(s)) = 0

\* the file being parsed is one record with balanced braces, so every entry body
\* in it is balanced
BalancedSource == fi >= 1 /\ OneBlock(FileText(dir[fi].lines))

\* C3: while an entry body with balanced braces is parsed, the depth counter equals
\* 1 + braces opened - braces closed among the text consumed, whatever the
\* distribution of the braces over the lines, so that the entry ends at its matching
\* closing brace and the parse never runs into the end of the input.
C3_Nesting ==
    BalancedSource =>
        /\ pc = "hist" => nest_level = TrueDepth
        /\ err.kind # "eof_hist"

\* C4: a dirty record whose dynasty is 0 (absent or explicit) is written without a
\* dynasty line.
C4_NoLowbornDynastyLine ==
    \A filename \in DOMAIN out : \A id \in RecordsOf(filename) :
        (RecordsOf(filename) = {id} /\ chars[id].dirty /\ chars[id].dynasty.val.int = 0)
            => \A i \in 1..Len(out[filename].out) : out[filename].out[i] # "dynasty"

\* the lines of a text, split at \n
RECURSIVE SplitLines(_)
SplitLines(s) ==
    IF s = <<>> THEN <<>>
    ELSE LET P == {i \in 1..Len(s) : s[i] = "\n"}
         IN  IF P = {} THEN <<s>>
             ELSE <<SubSeq(s, 1, SetMin(P) - 1)>>
                    \o SplitLines(SubSeq(s, SetMin(P) + 1, Len(s)))

\* the first lexeme of a line that is not whitespace
Key(line) == IF SkipWS(line, 1) <= Len(line) THEN line[SkipWS(line, 1)] ELSE ""

IsSuffix(a, b) == Len(a) <= Len(b) /\ SubSeq(b, Len(b) - Len(a) + 1, Len(b)) = a
IsInfix(a, b) == \E i \in 0..(Len(b) - Len(a)) : SubSeq(b, i + 1, i + Len(a)) = a

\* the line carries exactly the comment cmt (none for <<>>)
CarriesComment(line, cmt) ==
    IF cmt = <<>> THEN \A i \in 1..Len(line) : line[i] # "#"
    ELSE IsSuffix(cmt, line)

\* the files that consist of one record and were rewritten with it dirty
DirtySingles ==
    {filename \in DOMAIN out :
        /\ Len(files[filename]) = 1 /\ files[filename][1].kind = "char"
        /\ chars[files[filename][1].id].dirty}

\* C5: the block written for a dirty record is, in this order: the opening line of
\* the source verbatim; name; female (only when set); dynasty; religion; culture,
\* each scalar with its comment exactly when one was captured; the retained
\* unrecognized top-level lines in source order; the history entries in source
\* order; the closing brace.
C5_CanonicalBlock ==
    \A filename \in DirtySingles :
        LET r == chars[files[filename][1].id]
            L == SplitLines(out[filename].out)
            keys == <<"name">> \o (IF r.female THEN <<"female">> ELSE <<>>)
                      \o <<"dynasty", "religion", "culture">>
            cmts == <<r.name.cmt>> \o (IF r.female THEN <<<<>>>> ELSE <<>>)
                      \o <<r.dynasty.cmt, r.religion.cmt, r.culture.cmt>>
            n == Len(keys)
            e == Len(r.elems)
            rest == {i \in (2 + n + e)..(Len(L) - 1) : p_char_hist_entry_start(L[i]).ok}
        IN  /\ out[filename].ok
            /\ Len(L) >= 2 + n + e
            /\ L[1] = SrcOf(filename).lines[r.start_line].txt
            /\ \A i \in 1..n : Key(L[1 + i]) = keys[i] /\ CarriesComment(L[1 + i], cmts[i])
            /\ \A j \in 1..e : L[1 + n + j] = r.elems[j].literal
            /\ Cardinality(rest) = Len(r.hist_entries)
            /\ \A i \in rest :
                   LET k == Cardinality({j \in rest : j <= i})
                       m == p_char_hist_entry_start(L[i])
                   IN  DateVal(m.y, m.m, m.d) = r.hist_entries[k].date
            /\ L[Len(L)] = <<"}">>

\* s without leading and trailing whitespace
Trim(s) ==
    LET K == {j \in 1..Len(s) : s[j] \notin WS}
    IN  IF K = {} THEN <<>> ELSE SubSeq(s, SetMin(K), SetMax(K))

\* the text of a source line of a record that is neither a recognized scalar field
\* nor a birth statement nor the opener of an entry up to its brace
Opaque(line) ==
    IF \/ p_char_name(line).ok \/ p_char_dynasty(line).ok \/ p_char_religion(line).ok
       \/ p_char_culture(line).ok
       \/ (p_char_female(line).ok /\ p_char_female(line).val = "yes")
       \/ p_char_hist_entry_birth(line).ok
       \/ p_char_hist_entry_multi_start(line).ok
    THEN <<>>
    ELSE IF p_char_hist_entry_start(line).ok
    THEN Trim(From(line, p_char_hist_entry_start(line).end + 1))
    ELSE Trim(line)

\* C6: the block written for a dirty record holds every non-blank piece of the
\* record's source text that is not a recognized scalar field or a birth statement,
\* the text that follows the brace on an entry's opening line included.
C6_NothingLost ==
    \A filename \in DirtySingles :
        out[filename].ok =>
            \A i \in 1..Len(chars[files[filename][1].id].literal_elems) :
                IsInfix(Opaque(chars[files[filename][1].id].literal_elems[i].literal),
                        out[filename].out)

\* the entry parses of the record id that returned, in order
EntriesOf(id) == SelectSeq(entlog, LAMBDA e : e.id = id)

\* C7: in a record with balanced braces that was registered, an entry parse reports
\* a birth (so that the entry's date becomes the record's birth date) exactly when
\* a birth statement stands at depth 1 of that entry; a birth statement at depth 2
\* or deeper reports none; and a record whose only birth statement stands in one
\* entry has that entry's date as its birth date.
C7_BirthDetection ==
    (BalancedSource /\ pc = "file") =>
        \A id \in DOMAIN chars :
            LET E == EntriesOf(id)
                B == {k \in 1..Len(E) : E[k].b1 > 0}
            IN  /\ \A k \in 1..Len(E) : E[k].is_birth <=> E[k].b1 > 0
                /\ \A k \in B : B = {k} => chars[id].bdate = E[k].date

\* C8: a parse that runs to its end has met no entry with two birth statements at
\* depth 1, and the error for multiple birth statements is raised only at the
\* second birth statement at depth 1 of one entry (statements of other entries do
\* not count).
C8_BirthPerEntry ==
    /\ pc = "parsed" => \A k \in 1..Len(entlog) : entlog[k].b1 <= 1
    /\ err.kind = "multi_birth" => gbirth.b1 >= 1 /\ TrueDepth = 1

\* the next line of the source, as the parser sees it
NextLine == RStripEol(ReadLine)

\* C9: whenever the line read at the top level of a source is a record opener whose
\* identifier is already indexed (by a record of this source or of an earlier one),
\* the parse fails with the duplicate-identifier error at the line of that opener;
\* the second record is not parsed, and the index and the file's elements stay as
\* they were, the identifier still mapped to the first record.
C9_DuplicateId ==
    [][(/\ pc = "file" /\ ~AtEOF
        /\ p_char_start(NextLine).ok
        /\ NumVal[p_char_start(NextLine).id] \in DOMAIN chars)
         => /\ pc' = "error"
            /\ err' = [kind |-> "duplicate_id", line |-> n_line + 1]
            /\ chars' = chars /\ chars_by_dynasty' = chars_by_dynasty
            /\ chf' = chf /\ c' = c]_vars

\* C9 witness: the duplicate is met in a second source, the identifier indexed by
\* a record of the first
C9_Witness ==
    /\ err.kind = "duplicate_id" /\ fi = 2
    /\ dir[1].name \in DOMAIN files
    /\ p_char_start(dir[2].lines[err.line].txt).ok
    /\ NumVal[p_char_start(dir[2].lines[err.line].txt).id] \in RecordsOf(dir[1].name)

Required == {"name", "culture", "bdate"}

\* the ids listed in chars_by_dynasty, under any dynasty
ByDynastyIds ==
    UNION {{chars_by_dynasty[k][i] : i \in 1..Len(chars_by_dynasty[k])} :
              k \in DOMAIN chars_by_dynasty}

HasDynastyLine(r) ==
    \E i \in 1..Len(r.literal_elems) : p_char_dynasty(r.literal_elems[i].literal).ok

\* C10: every registered record has name, culture and birth date set and is listed
\* under its dynasty, which is 0 when the record has no dynasty line; and when the
\* terminator line of a record is read while one of the three is missing, the parse
\* fails and neither charactersById nor charactersByDynasty changes.
C10_Finalize ==
    /\ [](\A id \in DOMAIN chars :
             /\ Required \subseteq chars[id].attrs
             /\ chars[id].dynasty.val.int \in DOMAIN chars_by_dynasty
             /\ \E i \in 1..Len(chars_by_dynasty[chars[id].dynasty.val.int]) :
                    chars_by_dynasty[chars[id].dynasty.val.int][i] = id
             /\ ~HasDynastyLine(chars[id]) => chars[id].dynasty.val.int = 0)
    /\ [](err.kind \in {"no_name", "no_culture", "no_bdate"}
             => c.id \notin DOMAIN chars \cup ByDynastyIds)
    /\ [][(/\ pc = "char" /\ ~AtEOF
           /\ p_char_end(NextLine)
           /\ ~(Required \subseteq c.attrs))
            => /\ pc' = "error"
               /\ chars' = chars /\ chars_by_dynasty' = chars_by_dynasty]_vars

\* C10 witness: a record with culture and birth date but no name reaches its
\* terminator line
C10_Witness ==
    /\ err.kind = "no_name"
    /\ Required \ c.attrs = {"name"}

\* the braces left open at the end of the file : opened minus closed
OpenAtEnd(f) == Count(FileText(f.lines), "{") - Count(FileText(f.lines), "}")

\* no record of the parsed file keeps an unrecognized top-level line with a brace:
\* all braces of the file are those of its records and of their nested entries
NoOpaqueBraces(filename) ==
    \A id \in RecordsOf(filename) : \A j \in 1..Len(chars[id].elems) :
        Count(chars[id].elems[j].literal, "{") + Count(chars[id].elems[j].literal, "}") = 0

\* C11: a source whose input ends while a record or a nested entry is still open
\* (more braces opened than closed at the end of the input, all braces being those
\* of records and entries) is never parsed to its end; and the record that is being
\* read when the end of the input is met, at the record's top level or inside an
\* entry, is not registered.
C11_UnexpectedEOF ==
    /\ \A i \in 1..Len(dir) :
           (dir[i].name \in DOMAIN files /\ NoOpaqueBraces(dir[i].name))
               => OpenAtEnd(dir[i]) <= 0
    /\ err.kind \in {"eof_char", "eof_hist"}
           => /\ AtEOF
              /\ c.id \notin DOMAIN chars \cup ByDynastyIds

\* the line is a closing brace in the first column followed by text that is not blank
ClosingWithTail(line) ==
    /\ Len(line) >= 2 /\ line[1] = "}"
    /\ \E j \in 2..Len(line) : line[j] \notin WS

\* C12: when the line read at the top level of a record is the closing brace followed
\* by text that is not blank, the parse fails at that line: the line is not kept as
\* an unrecognized element with the record left open.
C12_TrailingAfterRecord ==
    [][(pc = "char" /\ ~AtEOF /\ ClosingWithTail(NextLine)) => pc' = "error"]_vars

\* the position of the first closing brace of s (0 when there is none)
FirstClose(s) ==
    LET P == {j \in 1..Len(s) : s[j] = "}"}
    IN  IF P = {} THEN 0 ELSE SetMin(P)

\* C13: the step that returns an entry's depth to 0 consumes the line up to the
\* entry's closing brace and no further, so that what follows that brace on the line
\* (a further closing brace included) is left to the check of trailing tokens; and
\* that check, when the rest of the line is neither blank nor a comment, raises the
\* parse error.
C13_TrailingAfterEntry ==
    [][/\ (pc = "hist" /\ nest_level = 1 /\ nest_level' = 0)
            => buf_idx' = buf_idx + FirstClose(From(buf, buf_idx + 1))
       /\ (/\ pc = "hist" /\ nest_level = 0 /\ buf_idx < Len(buf)
           /\ ~p_bare_comment_or_blank(From(buf, buf_idx + 1)))
            => pc' = "error" /\ err'.kind = "trailing"]_vars

\* the elements of the source number i of the directory: those stored when its parse
\* ended, or those collected so far when it is being parsed
ElemsOf(i) ==
    IF dir[i].name \in DOMAIN files THEN files[dir[i].name]
    ELSE IF i = fi THEN chf ELSE <<>>

\* the number, in the directory, of the source that holds the registered record id
FileIdx(id) ==
    CHOOSE i \in 1..Len(dir) :
        \E j \in 1..Len(ElemsOf(i)) : ElemsOf(i)[j].kind = "char" /\ ElemsOf(i)[j].id = id

\* the record a stands before the record b in the parsed input
Before(a, b) ==
    \/ FileIdx(a) < FileIdx(b)
    \/ FileIdx(a) = FileIdx(b) /\ chars[a].start_line < chars[b].start_line

\* the value of the last dynasty line of the record, 0 when it has none
FinalDynasty(r) ==
    LET P == {j \in 1..Len(r.literal_elems) : p_char_dynasty(r.literal_elems[j].literal).ok}
    IN  IF P = {} THEN 0
        ELSE NumVal[p_char_dynasty(r.literal_elems[SetMax(P)].literal).val[1]]

\* C14: every registered record stands exactly once in charactersByDynasty, in the
\* list of its final dynasty value (0 when it has no dynasty line), and every list
\* holds its records in the order of their appearance in the parsed input.
C14_DynastyGrouping ==
    /\ \A id \in DOMAIN chars :
           /\ FinalDynasty(chars[id]) \in DOMAIN chars_by_dynasty
           /\ \A k \in DOMAIN chars_by_dynasty :
                  Cardinality({i \in 1..Len(chars_by_dynasty[k]) :
                                  chars_by_dynasty[k][i] = id})
                      = IF k = FinalDynasty(chars[id]) THEN 1 ELSE 0
    /\ ByDynastyIds = DOMAIN chars
    /\ \A k \in DOMAIN chars_by_dynasty :
           \A a, b \in 1..Len(chars_by_dynasty[k]) :
               a < b => Before(chars_by_dynasty[k][a], chars_by_dynasty[k][b])

\* C14 witness: two sources parsed, a dynasty that holds a record of each
C14_Witness ==
    /\ pc = "parsed" /\ Len(dir) = 2
    /\ \E k \in DOMAIN chars_by_dynasty :
           /\ Len(chars_by_dynasty[k]) = 2
           /\ FileIdx(chars_by_dynasty[k][1]) # FileIdx(chars_by_dynasty[k][2])

\* numeric comparison of (year, month, day)
NumLess(a, b) ==
    \/ a.y < b.y
    \/ a.y = b.y /\ a.m < b.m
    \/ a.y = b.y /\ a.m = b.m /\ a.d < b.d

Date(yy, mm, dd) == [y |-> yy, m |-> mm, d |-> dd]

\* C15: for the date of birth of every record and the date of the --date argument
\* (years 0..9999, months and days 0..99) the comparison of DateVal agrees with the
\* numeric comparison of (year, month, day), so that transform gives the early
\* culture exactly to the records born before the date; and 1.1.1 < 1.12.1 < 2.1.1
\* < 1120.1.1.
C15_DateOrder ==
    /\ \A id \in DOMAIN chars :
           LET b == chars[id].bdate
           IN  /\ DateVal_cmp(b, melt_date) < 0 <=> NumLess(b, melt_date)
               /\ DateVal_cmp(b, melt_date) > 0 <=> NumLess(melt_date, b)
               /\ DateVal_cmp(b, melt_date) = 0 <=> b = melt_date
               /\ DateVal_cmp(melt_date, b) = 0 - DateVal_cmp(b, melt_date)
               /\ chars[id].dirty =>
                      (chars[id].culture.val = <<"german">> <=> NumLess(b, melt_date))
    /\ DateVal_cmp(Date(1, 1, 1), Date(1, 12, 1)) < 0
    /\ DateVal_cmp(Date(1, 12, 1), Date(2, 1, 1)) < 0
    /\ DateVal_cmp(Date(2, 1, 1), Date(1120, 1, 1)) < 0

\* C15 witness: a record born 2.1.1 melted with the date 1120.1.1, where the
\* comparison of the unpadded strings gives the opposite order
C15_Witness ==
    /\ melt_date = Date(1120, 1, 1)
    /\ \E id \in DOMAIN chars :
           /\ chars[id].bdate = Date(2, 1, 1)
           /\ chars[id].dirty /\ chars[id].culture.val = <<"german">>

\* the line is the scalar field female = yes, with or without a comment after it
FemaleYes(line) ==
    LET k == KeyEq(line, "female")
    IN  k # 0 /\ k <= Len(line) /\ line[k] = "yes" /\ RestOK(line, k + 1)

\* C16: a record that has a top-level line female = yes, bare or followed by a
\* comment, has its female flag set, and its dirty rewrite holds the line female=yes
\* right after the name line.
C16_FemaleComment ==
    \A filename \in DirtySingles :
        LET r == chars[files[filename][1].id]
            L == SplitLines(out[filename].out)
        IN  (/\ out[filename].ok
             /\ \E j \in 1..Len(r.literal_elems) : FemaleYes(r.literal_elems[j].literal))
                => /\ r.female
                   /\ Len(L) >= 3 /\ L[3] = <<"\t", "female", "=", "yes">>

\* the text ends with a line terminator
EndsWithEol(s) == Len(s) > 0 /\ s[Len(s)] = "\n"

\* the last physical line of the source has a line terminator
SrcEndsWithEol(filename) ==
    LET ls == SrcOf(filename).lines IN Len(ls) > 0 /\ ls[Len(ls)].eol # <<>>

\* C17: a rewritten file ends with a line terminator exactly when the last physical
\* line of its source did, whether the last record of the file is clean or dirty.
C17_FinalTerminator ==
    \A filename \in DOMAIN out :
        EndsWithEol(out[filename].out) <=> SrcEndsWithEol(filename)

\* C18: in each entry point that parses a history directory, a run that ends with
\* a parse error returns a status other than the one the entry point returns for
\* the failures that are not parse errors.
C18_ExitStatus ==
    pc = "error" =>
        /\ culture_melt_main # melt_except_status
        /\ culture_rewrite_main # rewrite_except_status

\* The text of the file of that name in the output directory
OutDirText(filename) ==
    IF filename \in DOMAIN out THEN out[filename].out ELSE preexisting[filename]

\* C19: a file that the output directory already holds is never written by the
\* rewrite (its text stays what it was); the rewrite of the database does not
\* complete when a parsed source has such a destination: the step that meets it
\* fails; and every file written so far stays as written.
C19_DestinationExists ==
    /\ [](/\ \A filename \in DOMAIN preexisting :
                 OutDirText(filename) = preexisting[filename]
          /\ pc = "done" => DOMAIN files \cap DOMAIN preexisting = {})
    /\ [][/\ \A filename \in DOMAIN out :
                 filename \in DOMAIN out' /\ out'[filename] = out[filename]
          /\ \A filename \in DOMAIN files \cap DOMAIN preexisting :
                 CHFile_rewrite(filename) => pc' = "crash" /\ out' = out]_vars

\* C19 witness: the rewrite has failed at a destination that exists, after it wrote
\* another file
C19_Witness ==
    /\ pc = "crash"
    /\ \E filename \in DOMAIN out : out[filename].ok
    /\ \A filename \in DOMAIN out : out[filename].ok
    /\ \E filename \in DOMAIN files \cap DOMAIN preexisting : filename \notin DOMAIN out

\* the birth results of the entry parses of the record id, in order
BirthResults(id) == [k \in 1..Len(EntriesOf(id)) |-> EntriesOf(id)[k].is_birth]

\* the lines of the rewritten file after its first line
BlockAfterOpener(filename) == Tail(SplitLines(out[filename].out))

\* C20: of two records that differ only in the opener of an entry, on two lines
\* (the date, then a line with only the brace) in the record 1 and on one line in
\* the record 2, either both parse or none does; when both are registered they have
\* the same entries (dates and elements), the same birth results and the same birth
\* date, and their dirty rewrites are the same after the record's opening line; and
\* a line other than the lone brace after a date-only line makes the parse fail.
C20_MultiLineOpener ==
    /\ [](/\ err.kind # "none" => fi = 1
          /\ {1, 2} \subseteq DOMAIN chars =>
                 /\ chars[1].hist_entries = chars[2].hist_entries
                 /\ chars[1].bdate = chars[2].bdate
                 /\ BirthResults(1) = BirthResults(2)
          /\ (/\ {<<"m", ".", "txt">>, <<"s", ".", "txt">>} \subseteq DOMAIN out
              /\ {1, 2} \subseteq DOMAIN chars /\ chars[1].dirty /\ chars[2].dirty)
                 => BlockAfterOpener(<<"m", ".", "txt">>) = BlockAfterOpener(<<"s", ".", "txt">>))
    /\ [][(/\ pc = "char" /\ histent_brace_wait /\ ~AtEOF
           /\ Trim(NextLine) # <<"{">>)
            => pc' = "error" /\ chars' = chars]_vars

\* C20 witness: both records rewritten dirty, the entry in question with a sub-block
\* and a birth statement
C20_Witness ==
    /\ pc = "done" /\ {1, 2} \subseteq DOMAIN chars
    /\ chars[1].dirty /\ chars[2].dirty
    /\ Len(chars[1].hist_entries) = 2
    /\ chars[1].bdate = DateVal("867", "12", "07")
    /\ \E k \in 1..Len(entlog) : entlog[k].id = 1 /\ entlog[k].opens > 0

\* the record ch after the rules, in their order: a rule that names the dynasty of
\* the record gives it the early culture when it is born before the date of the
\* --date argument, the later culture otherwise
RECURSIVE MeltedBy(_, _)
MeltedBy(ch, rules) ==
    IF rules = <<>> THEN ch
    ELSE LET r == Head(rules)
             target == IF NumLess(ch.bdate, melt_date) THEN r.cul_early ELSE r.cul_later
         IN  IF FinalDynasty(ch) = r.dyn_id /\ target # ch.culture.val
             THEN MeltedBy([ch EXCEPT
                               !.culture = [val |-> target,
                                            cmt |-> <<"#", " ", "melted", " ", "from", ":", " ">>
                                                    \o ch.culture.val],
                               !.dirty = TRUE],
                           Tail(rules))
             ELSE MeltedBy(ch, Tail(rules))

\* C21: transform gives every record of a dynasty that a rule names the early
\* culture of the rule when the record is born strictly before the date, the later
\* culture otherwise; the record is marked dirty exactly when this changes the value
\* of its culture, and the new culture then carries the comment that names the
\* previous value; a record whose culture is the target already, and a record of a
\* dynasty that no rule names, stays as it was parsed, and clean.
C21_Transform ==
    [][(pc = "parsed" /\ pc' = "melted") =>
          /\ DOMAIN chars' = DOMAIN chars
          /\ chars_by_dynasty' = chars_by_dynasty
          /\ \A id \in DOMAIN chars :
                 /\ ~chars[id].dirty
                 /\ chars'[id] = MeltedBy(chars[id], melt_rules)
                 /\ Len(melt_rules) = 1 =>
                        (chars'[id].dirty <=> chars'[id].culture.val # chars[id].culture.val)
                 /\ ~chars'[id].dirty => chars'[id] = chars[id]]_vars

\* C21 witness: after transform with two rules, of the two records in the database
\* one of dynasty 0 born on the date has the later culture of its rule and the
\* comment, and one of dynasty 5 whose rule gives the culture it has is clean
C21_Witness ==
    /\ pc = "melted" /\ Len(melt_rules) = 2
    /\ \E i, j \in DOMAIN chars :
           /\ FinalDynasty(chars[i]) = 0 /\ chars[i].bdate = melt_date
           /\ chars[i].dirty /\ chars[i].culture.val = <<"frankish">>
           /\ chars[i].culture.cmt = <<"#", " ", "melted", " ", "from", ":", " ", "saxon">>
           /\ FinalDynasty(chars[j]) = 5
           /\ ~chars[j].dirty /\ chars[j].culture.val = <<"saxon">>
           /\ \E k \in 1..2 : melt_rules[k].dyn_id = 5

\* C22: in culture-melt no output file is created before every source file of
\* the history directory is parsed without error and transform has applied the
\* rules; a run that ends with a parse error (or at the check of the output
\* directory) has written no file, and after a parse error the output directory,
\* removed and created again before parsing, is empty.
C22_PipelineOrder ==
    /\ [](out # <<>> =>
            /\ pc \in {"rewrite", "done", "crash"}
            /\ err = NoErr /\ fi = Len(dir)
            /\ \A i \in 1..Len(dir) : p_txt_file(dir[i].name) => dir[i].name \in DOMAIN files)
    /\ [](pc = "exit" => out = <<>>)
    /\ [](pc = "error" => out = <<>> /\ preexisting = <<>>)
    /\ [][out' # out => pc \in {"melted", "rewrite"}]_vars

\* C22 witness: a run over two source files that has parsed both, applied the
\* rules, which melted a record, and written both files
C22_Witness ==
    /\ pc = "done" /\ Cardinality(DOMAIN out) = 2 /\ DOMAIN out = DOMAIN files
    /\ melt_rules # <<>> /\ \E id \in DOMAIN chars : chars[id].dirty

\* C23: for every record registered in the database, whatever optional scalar
\* fields its source has, the rewrite of the record with the dirty flag set returns
\* and has written a block, which ends with the closing brace of the record.
C23_DirtyRewritable ==
    \A id \in DOMAIN chars :
        LET r == CHFileChar_rewrite([chars[id] EXCEPT !.dirty = TRUE])
        IN  /\ r.ok
            /\ Trim(r.out) # <<>> /\ Trim(r.out)[Len(Trim(r.out))] = "}"

\* C24: in the elements of every entry of a registered record, a partial literal
\* (written without a line terminator) is followed by another element, and the
\* last element, which holds the closing brace of the entry, is a terminated
\* literal, so that the text written for the entry ends with a line terminator.
C24_EntryLines ==
    \A id \in DOMAIN chars : \A k \in 1..Len(chars[id].hist_entries) :
        LET h == chars[id].hist_entries[k]
            o == CHFileCharHistEntry_rewrite(h)
        IN  /\ h.elems # <<>>
            /\ \A j \in 1..Len(h.elems) : h.elems[j].kind = "part" => j < Len(h.elems)
            /\ h.elems[Len(h.elems)].kind = "lit"
            /\ o[Len(o)] = "\n"

\* one iteration of the loop of CHFileCharHistEntry.parse advances the position
\* in the line by at least one lexeme, or fetches the next physical line
LoopProgress ==
    (pc = "hist" /\ pc' = "hist" /\ nest_level > 0) =>
        \/ pos' = pos + 1 /\ buf_idx' = 0
        \/ pos' = pos /\ buf' = buf /\ buf_idx < buf_idx' /\ buf_idx' <= Len(buf)

\* C25, as written: the parse of an entry stops, and it stops in one of two
\* ways: it returns with depth 0, or it raises the unexpected-EOF parse error; and
\* every iteration of its loop makes progress.
C25_TerminationTwoExits ==
    /\ [][LoopProgress]_vars
    /\ [][(pc = "hist" /\ pc' # "hist") =>
             \/ pc' = "char" /\ nest_level = 0
             \/ pc' = "error" /\ err'.kind = "eof_hist"]_vars
    /\ (pc = "hist") ~> (pc # "hist")

\* C25, amended: the parse of an entry stops, and it stops in one of four ways:
\* it returns with depth 0; it raises the unexpected-EOF parse error; it raises
\* the error of a second birth statement, at depth 1; or it raises, with depth 0,
\* the error of tokens after the closing brace. Every iteration of its loop
\* advances the position in the line or fetches the next physical line.
C25_Termination ==
    /\ [][LoopProgress]_vars
    /\ [][(pc = "hist" /\ pc' # "hist") =>
             \/ pc' = "char" /\ nest_level = 0
             \/ pc' = "error" /\ err'.kind = "eof_hist" /\ nest_level > 0
             \/ pc' = "error" /\ err'.kind = "multi_birth" /\ nest_level = 1
             \/ pc' = "error" /\ err'.kind = "trailing" /\ nest_level = 0]_vars
    /\ (pc = "hist") ~> (pc # "hist")

\* C25 witness: the parse of an entry has returned after it consumed two opening
\* and three closing braces, one lexeme group at a time, over several lines
C25_Witness ==
    /\ pc = "char" /\ entlog # <<>>
    /\ entlog[Len(entlog)].opens >= 2 /\ entlog[Len(entlog)].closes >= 3
    /\ n_line >= 8

====
